---- MODULE Spec2Model ----
(***************************************************************************)
(* A state-machine model of the CHIP-8 interpreter core in src/chip8.cpp:  *)
(* the fields of class Chip8 are the variables, every OP_xxxx handler is   *)
(* one action, and the fetch/decode step that latches the instruction word *)
(* is modelled from section 2 and 4.2 of the specification (the source     *)
(* holds the handlers only).                                               *)
(***************************************************************************)
EXTENDS Integers, Sequences, FiniteSets, TLC

VARIABLES registers, memory, index, pc, stack, sp, delayTimer, soundTimer,
          keypad, video, opcode, phase, layout

vars == <<registers, memory, index, pc, stack, sp, delayTimer, soundTimer,
          keypad, video, opcode, phase, layout>>

(***************************************************************************)
(* Program constants.                                                      *)
(***************************************************************************)
START_ADDRESS == 512
FONTSET_START_ADDRESS == 80
FONTSET_SIZE == 80
VIDEO_HEIGHT == 32
VIDEO_WIDTH == 64
MEMORY_SIZE == 4096
STACK_SIZE == 16
NUM_REGISTERS == 16
NUM_KEYS == 16

\* A framebuffer cell is a uint32_t, held as its two 16-bit halves <<low, high>>.
\* LIT is 0xFFFFFFFF and UNLIT is 0.
LIT == <<65535, 65535>>

UNLIT == <<0, 0>>

fontset ==
  << 240, 144, 144, 144, 240,
     32, 96, 32, 32, 112,
     240, 16, 240, 128, 240,
     240, 16, 240, 16, 240,
     144, 144, 240, 16, 16,
     240, 128, 240, 16, 240,
     240, 128, 240, 144, 240,
     240, 16, 32, 64, 64,
     240, 144, 240, 144, 240,
     240, 144, 240, 16, 240,
     240, 144, 240, 144, 144,
     224, 144, 224, 144, 224,
     240, 128, 128, 128, 240,
     224, 144, 144, 144, 224,
     240, 128, 240, 128, 240,
     240, 128, 240, 128, 128 >>

(***************************************************************************)
(* Fixed-width arithmetic: uint8_t, uint16_t and the bitwise operators.    *)
(***************************************************************************)
U8(n) == n % 256

U16(n) == n % 65536

RECURSIVE BitAnd(_, _)
BitAnd(a, b) ==
  IF a = 0 \/ b = 0 THEN 0
  ELSE ((a % 2) * (b % 2)) + 2 * BitAnd(a \div 2, b \div 2)

RECURSIVE BitOr(_, _)
BitOr(a, b) ==
  IF a = 0 THEN b
  ELSE IF b = 0 THEN a
  ELSE (IF (a % 2) + (b % 2) > 0 THEN 1 ELSE 0) + 2 * BitOr(a \div 2, b \div 2)

RECURSIVE BitXor(_, _)
BitXor(a, b) ==
  IF a = 0 THEN b
  ELSE IF b = 0 THEN a
  ELSE (((a % 2) + (b % 2)) % 2) + 2 * BitXor(a \div 2, b \div 2)

\* 2^k for the shifts of the handlers.
RECURSIVE Pow2(_)
Pow2(k) == IF k = 0 THEN 1 ELSE 2 * Pow2(k - 1)

(***************************************************************************)
(* Operand fields of the latched instruction word.                         *)
(***************************************************************************)
OpX(op) == BitAnd(op, 3840) \div 256

OpY(op) == BitAnd(op, 240) \div 16

OpN(op) == BitAnd(op, 15)

OpKK(op) == BitAnd(op, 255)

OpNNN(op) == BitAnd(op, 4095)

(***************************************************************************)
(* Decoder (specification 4.2): the handler an instruction word selects,   *)
(* by its high nibble and, for 0, 8, E and F, by its low byte or nibble.   *)
(* A word that selects no handler decodes to "none".                       *)
(***************************************************************************)
Decode(op) ==
  LET hi == op \div 4096
      lo == op % 256
      n  == op % 16
  IN  CASE hi = 0 /\ op = 224 -> "00E0"
        [] hi = 0 /\ op = 238 -> "00EE"
        [] hi = 1 -> "1nnn"
        [] hi = 2 -> "2nnn"
        [] hi = 3 -> "3xkk"
        [] hi = 4 -> "4xkk"
        [] hi = 5 /\ n = 0 -> "5xy0"
        [] hi = 6 -> "6xnn"
        [] hi = 7 -> "7xnn"
        [] hi = 8 /\ n = 0 -> "8xy0"
        [] hi = 8 /\ n = 1 -> "8xy1"
        [] hi = 8 /\ n = 2 -> "8xy2"
        [] hi = 8 /\ n = 3 -> "8xy3"
        [] hi = 8 /\ n = 4 -> "8xy4"
        [] hi = 8 /\ n = 5 -> "8xy5"
        [] hi = 8 /\ n = 6 -> "8xy6"
        [] hi = 8 /\ n = 7 -> "8xy7"
        [] hi = 8 /\ n = 14 -> "8xyE"
        [] hi = 9 /\ n = 0 -> "9xy0"
        [] hi = 10 -> "Annn"
        [] hi = 11 -> "Bnnn"
        [] hi = 12 -> "Cxkk"
        [] hi = 13 -> "Dxyn"
        [] hi = 14 /\ lo = 158 -> "Ex9E"
        [] hi = 14 /\ lo = 161 -> "ExA1"
        [] hi = 15 /\ lo = 7 -> "Fx07"
        [] hi = 15 /\ lo = 10 -> "Fx0A"
        [] hi = 15 /\ lo = 21 -> "Fx15"
        [] hi = 15 /\ lo = 24 -> "Fx18"
        [] hi = 15 /\ lo = 30 -> "Fx1E"
        [] hi = 15 /\ lo = 41 -> "Fx29"
        [] hi = 15 /\ lo = 51 -> "Fx33"
        [] hi = 15 /\ lo = 85 -> "Fx55"
        [] hi = 15 /\ lo = 101 -> "Fx65"
        [] OTHER -> "none"

\* A handler runs when its instruction word is the latched one.
Latched(h) == phase = "exec" /\ Decode(opcode) = h

(***************************************************************************)
(* Values of storage the program never initialises.  The constructor sets  *)
(* pc and the font bytes only; every other field holds what its storage    *)
(* held: zeroes (static storage, fresh pages) or a fill pattern.  One fill *)
(* byte per construction stands for the indeterminate contents.            *)
(***************************************************************************)
JunkBytes == {0, 255}

\* What a read outside an array may yield.
Indeterminate8 == {0, 255}

Indeterminate16 == {0, 65535}

Indeterminate32 == {UNLIT, LIT}

(***************************************************************************)
(* Chip8::Chip8: pc = START_ADDRESS, the font bytes copied to memory at    *)
(* FONTSET_START_ADDRESS; no other member is initialised.                  *)
(***************************************************************************)
Constructed(j) ==
  /\ pc = START_ADDRESS
  /\ memory = [a \in 0..(MEMORY_SIZE - 1) |->
                 IF a >= FONTSET_START_ADDRESS
                    /\ a < FONTSET_START_ADDRESS + FONTSET_SIZE
                 THEN fontset[a - FONTSET_START_ADDRESS + 1]
                 ELSE j]
  /\ registers = [r \in 0..(NUM_REGISTERS - 1) |-> j]
  /\ index = j * 257
  /\ stack = [i \in 0..(STACK_SIZE - 1) |-> j * 257]
  /\ sp = j
  /\ delayTimer = j
  /\ soundTimer = j
  /\ keypad = [k \in 0..(NUM_KEYS - 1) |-> j]
  /\ video = [c \in 0..(VIDEO_WIDTH * VIDEO_HEIGHT - 1) |-> <<j * 257, j * 257>>]
  /\ opcode = j * 257

Init ==
  /\ phase = "constructed"
  /\ layout = "unknown"
  /\ \E j \in JunkBytes : Constructed(j)

(***************************************************************************)
(* The object as one record, for the handlers whose stores may fall        *)
(* outside the array they address.                                         *)
(***************************************************************************)
Machine ==
  [registers |-> registers, memory |-> memory, index |-> index, pc |-> pc,
   stack |-> stack, sp |-> sp, delayTimer |-> delayTimer,
   soundTimer |-> soundTimer, keypad |-> keypad, video |-> video,
   opcode |-> opcode]

Commit(M) ==
  /\ registers' = M.registers
  /\ memory' = M.memory
  /\ index' = M.index
  /\ pc' = M.pc
  /\ stack' = M.stack
  /\ sp' = M.sp
  /\ delayTimer' = M.delayTimer
  /\ soundTimer' = M.soundTimer
  /\ keypad' = M.keypad
  /\ video' = M.video
  /\ opcode' = M.opcode

(***************************************************************************)
(* Byte offsets of the members in declaration order (uint8_t registers[16] *)
(* first), with natural alignment and little-endian bytes: the layout a    *)
(* store past the end of an array reaches when it stays inside the object. *)
(***************************************************************************)
OFF_MEMORY == 16
OFF_INDEX == 4112
OFF_PC == 4114
OFF_STACK == 4116
OFF_SP == 4148
OFF_DELAY == 4149
OFF_SOUND == 4150
OFF_KEYPAD == 4151
OFF_VIDEO == 4168
OFF_OPCODE == 12360
OFF_END == 12362

\* w with its byte k (0 low, 1 high) replaced by b.
SetByte16(w, k, b) ==
  IF k = 0 THEN (w \div 256) * 256 + b ELSE (w % 256) + 256 * b

\* The object after one byte store at byte offset off.
PokeByte(M, off, b) ==
  CASE off < OFF_MEMORY ->
         [M EXCEPT !.registers[off] = b]
    [] off >= OFF_MEMORY /\ off < OFF_INDEX ->
         [M EXCEPT !.memory[off - OFF_MEMORY] = b]
    [] off >= OFF_INDEX /\ off < OFF_PC ->
         [M EXCEPT !.index = SetByte16(M.index, off - OFF_INDEX, b)]
    [] off >= OFF_PC /\ off < OFF_STACK ->
         [M EXCEPT !.pc = SetByte16(M.pc, off - OFF_PC, b)]
    [] off >= OFF_STACK /\ off < OFF_SP ->
         [M EXCEPT !.stack[(off - OFF_STACK) \div 2] =
                      SetByte16(@, (off - OFF_STACK) % 2, b)]
    [] off = OFF_SP -> [M EXCEPT !.sp = b]
    [] off = OFF_DELAY -> [M EXCEPT !.delayTimer = b]
    [] off = OFF_SOUND -> [M EXCEPT !.soundTimer = b]
    [] off >= OFF_KEYPAD /\ off < OFF_KEYPAD + NUM_KEYS ->
         [M EXCEPT !.keypad[off - OFF_KEYPAD] = b]
    [] off >= OFF_VIDEO /\ off < OFF_OPCODE ->
         [M EXCEPT !.video[(off - OFF_VIDEO) \div 4]
                          [(((off - OFF_VIDEO) % 4) \div 2) + 1] =
                      SetByte16(@, (off - OFF_VIDEO) % 2, b)]
    [] off >= OFF_OPCODE /\ off < OFF_END ->
         [M EXCEPT !.opcode = SetByte16(M.opcode, off - OFF_OPCODE, b)]
    [] OTHER -> M

(***************************************************************************)
(* A store outside its array is undefined: it lands either on the members  *)
(* that follow the array ("adjacent") or on storage that is none of the    *)
(* modelled members ("elsewhere").  Which of the two is a fact of the      *)
(* build: layout is "unknown" until the first such store and fixed from    *)
(* then on.                                                                *)
(***************************************************************************)
Outcomes == {"adjacent", "elsewhere"}

LayoutChoices == IF layout = "unknown" THEN Outcomes ELSE {layout}

\* The layout after a handler that stored out of bounds (oob) under outcome o.
Settle(oob, o) == layout' = IF oob THEN o ELSE layout

\* memory[a] = b
StoreMemory(M, a, b, o) ==
  IF a < MEMORY_SIZE THEN [M EXCEPT !.memory[a] = b]
  ELSE IF o = "adjacent" THEN PokeByte(M, OFF_MEMORY + a, b)
  ELSE M

\* stack[i] = w
StoreStack(M, i, w, o) ==
  IF i < STACK_SIZE THEN [M EXCEPT !.stack[i] = w]
  ELSE IF o = "adjacent"
       THEN PokeByte(PokeByte(M, OFF_STACK + 2 * i, w % 256),
                     OFF_STACK + 2 * i + 1, w \div 256)
  ELSE M

(***************************************************************************)
(* Chip8::LoadROM: the bytes of the file are copied to memory from         *)
(* START_ADDRESS on, whatever the size of the file.                        *)
(***************************************************************************)
\* The copy loop from byte i of the file on.  The stores that stay inside
\* memory touch distinct cells and are taken together; the stores past its
\* end are taken one at a time.
RECURSIVE CopyROM(_, _, _, _)
CopyROM(M, buffer, i, o) ==
  IF i >= Len(buffer) THEN M
  ELSE IF START_ADDRESS + i < MEMORY_SIZE
  THEN LET n == IF START_ADDRESS + Len(buffer) < MEMORY_SIZE
                THEN Len(buffer) ELSE MEMORY_SIZE - START_ADDRESS
       IN  CopyROM([M EXCEPT !.memory =
                      [a \in DOMAIN @ |->
                         IF a >= START_ADDRESS + i /\ a < START_ADDRESS + n
                         THEN buffer[a - START_ADDRESS + 1] ELSE @[a]]],
                   buffer, n, o)
  ELSE CopyROM(StoreMemory(M, START_ADDRESS + i, buffer[i + 1], o),
               buffer, i + 1, o)

LoadROM(buffer) ==
  /\ phase = "constructed"
  /\ \E o \in LayoutChoices :
       /\ Commit(CopyROM(Machine, buffer, 0, o))
       /\ Settle(START_ADDRESS + Len(buffer) > MEMORY_SIZE, o)
  /\ phase' = "fetch"

(***************************************************************************)
(* The keypad collaborator (specification 6) sets or clears one latch      *)
(* between two cycles.                                                     *)
(***************************************************************************)
KeyEvent(k, v) ==
  /\ phase = "fetch"
  /\ keypad[k] # v
  /\ keypad' = [keypad EXCEPT ![k] = v]
  /\ UNCHANGED <<registers, memory, index, pc, stack, sp, delayTimer,
                 soundTimer, video, opcode, phase, layout>>

(***************************************************************************)
(* The head of a cycle (specification 2): the two bytes at the program     *)
(* counter are latched as the instruction word and the counter advances    *)
(* by two.                                                                 *)
(***************************************************************************)
Fetch ==
  /\ phase = "fetch"
  /\ \E oob \in Indeterminate8 :
       LET hi == IF pc < MEMORY_SIZE THEN memory[pc] ELSE oob
           lo == IF pc + 1 < MEMORY_SIZE THEN memory[pc + 1] ELSE oob
       IN  opcode' = hi * 256 + lo
  /\ pc' = U16(pc + 2)
  /\ phase' = "exec"
  /\ UNCHANGED <<registers, memory, index, stack, sp, delayTimer,
                 soundTimer, keypad, video, layout>>

(***************************************************************************)
(* The handlers.                                                           *)
(***************************************************************************)

\* memset(video, 0, VIDEO_HEIGHT * VIDEO_WIDTH): that many BYTES are zeroed,
\* four to a cell.
OP_00E0 ==
  /\ Latched("00E0")
  /\ video' = [c \in DOMAIN video |->
                 IF 4 * c < VIDEO_HEIGHT * VIDEO_WIDTH THEN UNLIT ELSE video[c]]
  /\ phase' = "fetch"
  /\ UNCHANGED <<registers, memory, index, pc, stack, sp, delayTimer,
                 soundTimer, keypad, opcode, layout>>

\* --sp; pc = stack[sp];  A slot past the stack reads oob.
Return(M, oob) ==
  LET s == U8(M.sp - 1)
  IN  [M EXCEPT !.sp = s,
                !.pc = IF s < STACK_SIZE THEN M.stack[s] ELSE oob]

OP_00EE ==
  /\ Latched("00EE")
  /\ \E oob \in Indeterminate16 : Commit(Return(Machine, oob))
  /\ phase' = "fetch"
  /\ UNCHANGED layout

OP_1nnn ==
  /\ Latched("1nnn")
  /\ pc' = OpNNN(opcode)
  /\ phase' = "fetch"
  /\ UNCHANGED <<registers, memory, index, stack, sp, delayTimer,
                 soundTimer, keypad, video, opcode, layout>>

\* pc = address; stack[sp] = pc; ++sp; pc = address;
Call(M, o) ==
  LET address == OpNNN(M.opcode)
      M1 == [M EXCEPT !.pc = address]
      M2 == StoreStack(M1, M1.sp, M1.pc, o)
      M3 == [M2 EXCEPT !.sp = U8(M2.sp + 1)]
  IN  [M3 EXCEPT !.pc = address]

OP_2nnn ==
  /\ Latched("2nnn")
  /\ \E o \in LayoutChoices :
       /\ Commit(Call(Machine, o))
       /\ Settle(sp >= STACK_SIZE, o)
  /\ phase' = "fetch"

OP_3xkk ==
  /\ Latched("3xkk")
  /\ pc' = IF registers[OpX(opcode)] = OpKK(opcode) THEN U16(pc + 2) ELSE pc
  /\ phase' = "fetch"
  /\ UNCHANGED <<registers, memory, index, stack, sp, delayTimer,
                 soundTimer, keypad, video, opcode, layout>>

\* OP_4xkk with the comparison of OP_3xkk.
OP_4xkkEqual ==
  /\ Latched("4xkk")
  /\ pc' = IF registers[OpX(opcode)] = OpKK(opcode) THEN U16(pc + 2) ELSE pc
  /\ phase' = "fetch"
  /\ UNCHANGED <<registers, memory, index, stack, sp, delayTimer,
                 soundTimer, keypad, video, opcode, layout>>

OP_4xkk ==
  /\ Latched("4xkk")
  /\ pc' = IF registers[OpX(opcode)] # OpKK(opcode) THEN U16(pc + 2) ELSE pc
  /\ phase' = "fetch"
  /\ UNCHANGED <<registers, memory, index, stack, sp, delayTimer,
                 soundTimer, keypad, video, opcode, layout>>

OP_5xy0 ==
  /\ Latched("5xy0")
  /\ pc' = IF registers[OpX(opcode)] = registers[OpY(opcode)]
           THEN U16(pc + 2) ELSE pc
  /\ phase' = "fetch"
  /\ UNCHANGED <<registers, memory, index, stack, sp, delayTimer,
                 soundTimer, keypad, video, opcode, layout>>

OP_6xnn ==
  /\ Latched("6xnn")
  /\ registers' = [registers EXCEPT ![OpX(opcode)] = OpKK(opcode)]
  /\ phase' = "fetch"
  /\ UNCHANGED <<memory, index, pc, stack, sp, delayTimer, soundTimer,
                 keypad, video, opcode, layout>>

\* OP_7xnn with the carry of the sum put in register 15, as OP_8xy4 does.
OP_7xnnCarry ==
  /\ Latched("7xnn")
  /\ LET sum == registers[OpX(opcode)] + OpKK(opcode)
     IN  registers' = [[registers EXCEPT ![15] = IF sum > 255 THEN 1 ELSE 0]
                         EXCEPT ![OpX(opcode)] = U8(sum)]
  /\ phase' = "fetch"
  /\ UNCHANGED <<memory, index, pc, stack, sp, delayTimer, soundTimer,
                 keypad, video, opcode, layout>>

OP_7xnn ==
  /\ Latched("7xnn")
  /\ registers' = [registers EXCEPT ![OpX(opcode)] = U8(@ + OpKK(opcode))]
  /\ phase' = "fetch"
  /\ UNCHANGED <<memory, index, pc, stack, sp, delayTimer, soundTimer,
                 keypad, video, opcode, layout>>

OP_8xy0 ==
  /\ Latched("8xy0")
  /\ registers' = [registers EXCEPT ![OpX(opcode)] = registers[OpY(opcode)]]
  /\ phase' = "fetch"
  /\ UNCHANGED <<memory, index, pc, stack, sp, delayTimer, soundTimer,
                 keypad, video, opcode, layout>>

OP_8xy1 ==
  /\ Latched("8xy1")
  /\ registers' = [registers EXCEPT ![OpX(opcode)] =
                     BitOr(@, registers[OpY(opcode)])]
  /\ phase' = "fetch"
  /\ UNCHANGED <<memory, index, pc, stack, sp, delayTimer, soundTimer,
                 keypad, video, opcode, layout>>

OP_8xy2 ==
  /\ Latched("8xy2")
  /\ registers' = [registers EXCEPT ![OpX(opcode)] =
                     BitAnd(@, registers[OpY(opcode)])]
  /\ phase' = "fetch"
  /\ UNCHANGED <<memory, index, pc, stack, sp, delayTimer, soundTimer,
                 keypad, video, opcode, layout>>

OP_8xy3 ==
  /\ Latched("8xy3")
  /\ registers' = [registers EXCEPT ![OpX(opcode)] =
                     BitXor(@, registers[OpY(opcode)])]
  /\ phase' = "fetch"
  /\ UNCHANGED <<memory, index, pc, stack, sp, delayTimer, soundTimer,
                 keypad, video, opcode, layout>>

\* The register file after 8xy4: the flag is stored first, then
\* registers[Vx] += registers[Vy] reads the register file again.
Add8xy4(regs, Vx, Vy) ==
  LET result == regs[Vx] + regs[Vy]
      r1 == [regs EXCEPT ![15] = IF result > 255 THEN 1 ELSE 0]
  IN  [r1 EXCEPT ![Vx] = U8(r1[Vx] + r1[Vy])]

OP_8xy4 ==
  /\ Latched("8xy4")
  /\ registers' = Add8xy4(registers, OpX(opcode), OpY(opcode))
  /\ phase' = "fetch"
  /\ UNCHANGED <<memory, index, pc, stack, sp, delayTimer, soundTimer,
                 keypad, video, opcode, layout>>

\* The register file after 8xy5: flag first, then registers[Vx] -= registers[Vy].
Sub8xy5(regs, Vx, Vy) ==
  LET r1 == [regs EXCEPT ![15] = IF regs[Vx] > regs[Vy] THEN 1 ELSE 0]
  IN  [r1 EXCEPT ![Vx] = U8(r1[Vx] - r1[Vy])]

OP_8xy5 ==
  /\ Latched("8xy5")
  /\ registers' = Sub8xy5(registers, OpX(opcode), OpY(opcode))
  /\ phase' = "fetch"
  /\ UNCHANGED <<memory, index, pc, stack, sp, delayTimer, soundTimer,
                 keypad, video, opcode, layout>>

\* The register file after 8xy6: flag first, then registers[Vx] = registers[Vy] >> 1.
Shr8xy6(regs, Vx, Vy) ==
  LET r1 == [regs EXCEPT ![15] = BitAnd(regs[Vy], 1)]
  IN  [r1 EXCEPT ![Vx] = r1[Vy] \div 2]

OP_8xy6 ==
  /\ Latched("8xy6")
  /\ registers' = Shr8xy6(registers, OpX(opcode), OpY(opcode))
  /\ phase' = "fetch"
  /\ UNCHANGED <<memory, index, pc, stack, sp, delayTimer, soundTimer,
                 keypad, video, opcode, layout>>

\* The register file after 8xy7: flag first, then
\* registers[Vx] = registers[Vy] - registers[Vx].
Subn8xy7(regs, Vx, Vy) ==
  LET r1 == [regs EXCEPT ![15] = IF regs[Vy] > regs[Vx] THEN 1 ELSE 0]
  IN  [r1 EXCEPT ![Vx] = U8(r1[Vy] - r1[Vx])]

OP_8xy7 ==
  /\ Latched("8xy7")
  /\ registers' = Subn8xy7(registers, OpX(opcode), OpY(opcode))
  /\ phase' = "fetch"
  /\ UNCHANGED <<memory, index, pc, stack, sp, delayTimer, soundTimer,
                 keypad, video, opcode, layout>>

\* The register file after 8xyE: registers[15] = (registers[Vy] & 0xF0) >> 7,
\* then registers[Vx] = registers[Vy] << 1.
Shl8xyE(regs, Vx, Vy) ==
  LET r1 == [regs EXCEPT ![15] = BitAnd(regs[Vy], 240) \div Pow2(7)]
  IN  [r1 EXCEPT ![Vx] = U8(r1[Vy] * 2)]

OP_8xyE ==
  /\ Latched("8xyE")
  /\ registers' = Shl8xyE(registers, OpX(opcode), OpY(opcode))
  /\ phase' = "fetch"
  /\ UNCHANGED <<memory, index, pc, stack, sp, delayTimer, soundTimer,
                 keypad, video, opcode, layout>>

OP_9xy0 ==
  /\ Latched("9xy0")
  /\ pc' = IF registers[OpX(opcode)] # registers[OpY(opcode)]
           THEN U16(pc + 2) ELSE pc
  /\ phase' = "fetch"
  /\ UNCHANGED <<registers, memory, index, stack, sp, delayTimer,
                 soundTimer, keypad, video, opcode, layout>>

OP_Annn ==
  /\ Latched("Annn")
  /\ index' = OpNNN(opcode)
  /\ phase' = "fetch"
  /\ UNCHANGED <<registers, memory, pc, stack, sp, delayTimer, soundTimer,
                 keypad, video, opcode, layout>>

OP_Bnnn ==
  /\ Latched("Bnnn")
  /\ pc' = U16(OpNNN(opcode) + registers[0])
  /\ phase' = "fetch"
  /\ UNCHANGED <<registers, memory, index, stack, sp, delayTimer,
                 soundTimer, keypad, video, opcode, layout>>

\* What randByte(randGen) may return.
RandBytes == {0, 90, 255}

OP_Cxkk ==
  /\ Latched("Cxkk")
  /\ \E r \in RandBytes :
       registers' = [registers EXCEPT ![OpX(opcode)] = BitAnd(r, OpKK(opcode))]
  /\ phase' = "fetch"
  /\ UNCHANGED <<memory, index, pc, stack, sp, delayTimer, soundTimer,
                 keypad, video, opcode, layout>>

\* *screenPixel ^= 0xFFFFFFFF
Toggle(cell) == <<65535 - cell[1], 65535 - cell[2]>>

\* DrawCols with the cell XORed with the sprite bit itself, where the bit is
\* set, in place of the all-ones toggle.
RECURSIVE DrawColsXorPixel(_, _, _, _)
DrawColsXorPixel(cell, spriteByte, col, flag) ==
  IF col >= 8 THEN <<cell, flag>>
  ELSE LET spritePixel == BitAnd(spriteByte, 128 \div Pow2(col))
       IN  DrawColsXorPixel(<<BitXor(cell[1], spritePixel), cell[2]>>,
                            spriteByte, col + 1,
                            IF spritePixel # 0 /\ cell = LIT THEN 1 ELSE flag)

\* The inner loop of OP_Dxyn over the 8 columns of one sprite row: every
\* column addresses the same cell, tests it when the sprite bit is set and
\* toggles it whether the bit is set or not.  <<cell, flag>> after the loop.
RECURSIVE DrawCols(_, _, _, _)
DrawCols(cell, spriteByte, col, flag) ==
  IF col >= 8 THEN <<cell, flag>>
  ELSE LET spritePixel == BitAnd(spriteByte, 128 \div Pow2(col))
       IN  DrawCols(Toggle(cell), spriteByte, col + 1,
                    IF spritePixel # 0 /\ cell = LIT THEN 1 ELSE flag)

\* The cell a row of the sprite addresses: &video[(yPos + row) * VIDEO_WIDTH].
RowCell(yPos, row) == (yPos + row) * VIDEO_WIDTH

\* The outer loop of OP_Dxyn: row addresses video[(yPos + row) * VIDEO_WIDTH].
\* A sprite byte read past memory is oobByte, a cell past the framebuffer
\* reads oobCell and its eight toggles cancel.  <<video, flag>> after the loop.
RECURSIVE DrawRows(_, _, _, _, _, _, _, _, _)
DrawRows(vid, flag, row, height, yPos, mem, idx, oobByte, oobCell) ==
  IF row >= height THEN <<vid, flag>>
  ELSE LET a == idx + row
           spriteByte == IF a < MEMORY_SIZE THEN mem[a] ELSE oobByte
           c == RowCell(yPos, row)
           inside == c < VIDEO_WIDTH * VIDEO_HEIGHT
           r == DrawCols(IF inside THEN vid[c] ELSE oobCell, spriteByte, 0, flag)
       IN  DrawRows(IF inside THEN [vid EXCEPT ![c] = r[1]] ELSE vid,
                    r[2], row + 1, height, yPos, mem, idx, oobByte, oobCell)

OP_Dxyn ==
  /\ Latched("Dxyn")
  /\ \E oobByte \in Indeterminate8, oobCell \in Indeterminate32 :
       LET yPos == registers[OpY(opcode)] % VIDEO_HEIGHT
           r == DrawRows(video, 0, 0, OpN(opcode), yPos, memory, index,
                         oobByte, oobCell)
       IN  /\ video' = r[1]
           /\ registers' = [registers EXCEPT ![15] = r[2]]
  /\ phase' = "fetch"
  /\ UNCHANGED <<memory, index, pc, stack, sp, delayTimer, soundTimer,
                 keypad, opcode, layout>>

\* keypad[key] as a condition; a key past the keypad reads oob.
KeyDown(key, oob) == IF key < NUM_KEYS THEN keypad[key] # 0 ELSE oob # 0

OP_Ex9E ==
  /\ Latched("Ex9E")
  /\ \E oob \in Indeterminate8 :
       pc' = IF KeyDown(registers[OpX(opcode)], oob) THEN U16(pc + 2) ELSE pc
  /\ phase' = "fetch"
  /\ UNCHANGED <<registers, memory, index, stack, sp, delayTimer,
                 soundTimer, keypad, video, opcode, layout>>

OP_ExA1 ==
  /\ Latched("ExA1")
  /\ \E oob \in Indeterminate8 :
       pc' = IF ~KeyDown(registers[OpX(opcode)], oob) THEN U16(pc + 2) ELSE pc
  /\ phase' = "fetch"
  /\ UNCHANGED <<registers, memory, index, stack, sp, delayTimer,
                 soundTimer, keypad, video, opcode, layout>>

OP_Fx07 ==
  /\ Latched("Fx07")
  /\ registers' = [registers EXCEPT ![OpX(opcode)] = delayTimer]
  /\ phase' = "fetch"
  /\ UNCHANGED <<memory, index, pc, stack, sp, delayTimer, soundTimer,
                 keypad, video, opcode, layout>>

\* ScanKeys with the chain tested from the last key down.
RECURSIVE ScanKeysDescending(_, _)
ScanKeysDescending(keys, k) ==
  IF k >= NUM_KEYS THEN NUM_KEYS
  ELSE IF keys[NUM_KEYS - 1 - k] # 0 THEN NUM_KEYS - 1 - k
  ELSE ScanKeysDescending(keys, k + 1)

\* The if / else-if chain of OP_Fx0A from key k on: the first key whose latch
\* is set, NUM_KEYS when the chain reaches its final else.
RECURSIVE ScanKeys(_, _)
ScanKeys(keys, k) ==
  IF k >= NUM_KEYS THEN NUM_KEYS
  ELSE IF keys[k] # 0 THEN k
  ELSE ScanKeys(keys, k + 1)

OP_Fx0A ==
  /\ Latched("Fx0A")
  /\ LET key == ScanKeys(keypad, 0)
     IN  IF key < NUM_KEYS
         THEN /\ registers' = [registers EXCEPT ![OpX(opcode)] = key]
              /\ pc' = pc
         ELSE /\ registers' = registers
              /\ pc' = U16(pc - 2)
  /\ phase' = "fetch"
  /\ UNCHANGED <<memory, index, stack, sp, delayTimer, soundTimer, keypad,
                 video, opcode, layout>>

OP_Fx15 ==
  /\ Latched("Fx15")
  /\ delayTimer' = registers[OpX(opcode)]
  /\ phase' = "fetch"
  /\ UNCHANGED <<registers, memory, index, pc, stack, sp, soundTimer,
                 keypad, video, opcode, layout>>

OP_Fx18 ==
  /\ Latched("Fx18")
  /\ soundTimer' = registers[OpX(opcode)]
  /\ phase' = "fetch"
  /\ UNCHANGED <<registers, memory, index, pc, stack, sp, delayTimer,
                 keypad, video, opcode, layout>>

OP_Fx1E ==
  /\ Latched("Fx1E")
  /\ index' = U16(index + registers[OpX(opcode)])
  /\ phase' = "fetch"
  /\ UNCHANGED <<registers, memory, pc, stack, sp, delayTimer, soundTimer,
                 keypad, video, opcode, layout>>

\* index += FONTSET_START_ADDRESS + (5 * digit)
OP_Fx29 ==
  /\ Latched("Fx29")
  /\ index' = U16(index + FONTSET_START_ADDRESS + 5 * registers[OpX(opcode)])
  /\ phase' = "fetch"
  /\ UNCHANGED <<registers, memory, pc, stack, sp, delayTimer, soundTimer,
                 keypad, video, opcode, layout>>

\* Bcd with the digits stored in the opposite order: ones at memory[index].
BcdOnesFirst(M, o) ==
  LET value == M.registers[OpX(M.opcode)]
      M1 == StoreMemory(M, M.index, value % 10, o)
      M2 == StoreMemory(M1, M1.index + 1, (value \div 10) % 10, o)
  IN  StoreMemory(M2, M2.index + 2, ((value \div 10) \div 10) % 10, o)

\* memory[index+2], memory[index+1], memory[index] in that order, value
\* divided by 10 between the stores.
Bcd(M, o) ==
  LET value == M.registers[OpX(M.opcode)]
      M1 == StoreMemory(M, M.index + 2, value % 10, o)
      M2 == StoreMemory(M1, M1.index + 1, (value \div 10) % 10, o)
  IN  StoreMemory(M2, M2.index, ((value \div 10) \div 10) % 10, o)

OP_Fx33 ==
  /\ Latched("Fx33")
  /\ \E o \in LayoutChoices :
       /\ Commit(Bcd(Machine, o))
       /\ Settle(index + 2 >= MEMORY_SIZE, o)
  /\ phase' = "fetch"

\* StoreRegs with the loop stopped before register Vx (reg < Vx).
RECURSIVE StoreRegsExclusive(_, _, _, _)
StoreRegsExclusive(M, reg, Vx, o) ==
  IF reg >= Vx THEN M
  ELSE StoreRegsExclusive(StoreMemory(M, M.index + reg, M.registers[reg], o),
                          reg + 1, Vx, o)

\* for (reg = 0; reg <= Vx; reg++) memory[index + reg] = registers[reg];
RECURSIVE StoreRegs(_, _, _, _)
StoreRegs(M, reg, Vx, o) ==
  IF reg > Vx THEN M
  ELSE StoreRegs(StoreMemory(M, M.index + reg, M.registers[reg], o),
                 reg + 1, Vx, o)

OP_Fx55 ==
  /\ Latched("Fx55")
  /\ \E o \in LayoutChoices :
       /\ Commit(StoreRegs(Machine, 0, OpX(opcode), o))
       /\ Settle(index + OpX(opcode) >= MEMORY_SIZE, o)
  /\ phase' = "fetch"

\* for (reg = 0; reg <= Vx; reg++) registers[reg] = memory[index + reg];
OP_Fx65 ==
  /\ Latched("Fx65")
  /\ \E oob \in Indeterminate8 :
       registers' = [r \in DOMAIN registers |->
                       IF r <= OpX(opcode)
                       THEN IF index + r < MEMORY_SIZE
                            THEN memory[index + r] ELSE oob
                       ELSE registers[r]]
  /\ phase' = "fetch"
  /\ UNCHANGED <<memory, index, pc, stack, sp, delayTimer, soundTimer,
                 keypad, video, opcode, layout>>

(***************************************************************************)
(* The program images the loader is given.  An image is the sequence of    *)
(* the bytes of its file; the families below hold, between them, every     *)
(* instruction of the handlers with operands drawn from small sets.        *)
(***************************************************************************)
\* The instruction words hxyn, hxkk and hnnn.
W(h, x, y, n) == h * 4096 + x * 256 + y * 16 + n

WK(h, x, kk) == h * 4096 + x * 256 + kk

WA(h, nnn) == h * 4096 + nnn

\* The bytes of a sequence of instruction words, high byte first.
Bytes(ws) ==
  [i \in 1..(2 * Len(ws)) |->
     IF i % 2 = 1 THEN ws[(i + 1) \div 2] \div 256 ELSE ws[i \div 2] % 256]

\* Tallest sprite of the draw images.
MaxHeight == 2

ByteVals == {1, 3, 255}

RegPairs == {<<0, 1>>, <<1, 15>>, <<15, 1>>, <<2, 2>>}

AluOps == {0, 1, 2, 3, 4, 5, 6, 7, 14}

SpriteRows == {0, 64, 128, 255}

Positions == {<<0, 0>>, <<63, 31>>, <<200, 100>>}

KeyVals == {3, 15, 16}

\* Vx = a; Vy = b; 8xyN
AluImages ==
  { Bytes(<<WK(6, p[1], a), WK(6, p[2], b), W(8, p[1], p[2], n)>>) :
      p \in RegPairs, a \in ByteVals, b \in ByteVals, n \in AluOps }

\* Vx = a; Vy = b; then one of the skips, or 7xkk
SkipImages ==
  { Bytes(<<WK(6, p[1], a), WK(6, p[2], b), w>>) :
      p \in {<<0, 1>>, <<2, 2>>}, a \in {1, 255}, b \in {1, 3},
      w \in {WK(3, 0, 1), WK(4, 0, 1), W(5, 0, 1, 0), W(9, 0, 1, 0),
             WK(7, 0, 255), WK(7, 15, 1)} }

\* Vx = key; Ex9E or ExA1
KeySkipImages ==
  { Bytes(<<WK(6, 4, k), WK(14, 4, lo)>>) : k \in KeyVals, lo \in {158, 161} }

\* Fx0A
KeyWaitImages == { Bytes(<<WK(15, x, 10)>>) : x \in {0, 15} }

\* Calls and returns: a call answered by a return, a nested call, a call of
\* itself, a return with nothing called.
CallImages ==
  { Bytes(<<WA(2, 516), WA(1, 514), 238>>),
    Bytes(<<WA(2, 516), WA(1, 514), WA(2, 520), 238, 238>>),
    Bytes(<<WA(2, 512)>>),
    Bytes(<<238>>) }

\* Jumps, index register, timers, random, memory transfers
MiscImages ==
  { Bytes(<<WA(1, 552)>>),
    Bytes(<<WK(6, 0, 4), WA(11, 514)>>),
    Bytes(<<WK(12, 3, 15)>>),
    Bytes(<<WK(6, 5, 9), WK(15, 5, 21), WK(15, 6, 7), WK(15, 5, 24)>>),
    Bytes(<<WK(6, 1, 7), WA(10, 768), WK(15, 1, 30), WK(15, 1, 41)>>),
    Bytes(<<WK(6, 1, 7), WK(15, 1, 41)>>),
    Bytes(<<WK(6, 2, 254), WA(10, 768), WK(15, 2, 51)>>),
    Bytes(<<WK(6, 2, 254), WA(10, 4094), WK(15, 2, 51)>>),
    Bytes(<<WK(6, 0, 17), WK(6, 1, 34), WA(10, 768), WK(15, 1, 85),
            WK(6, 0, 0), WK(6, 1, 0), WK(15, 1, 101)>>),
    Bytes(<<WK(6, 0, 17), WK(6, 1, 34), WA(10, 4095), WK(15, 1, 85),
            WK(15, 1, 101)>>) }

\* 00E0; V0 = vx; V1 = vy; I = sprite; D01n twice; then the n sprite rows
DrawImages ==
  { Bytes(<<224, WK(6, 0, q[1]), WK(6, 1, q[2]), WA(10, START_ADDRESS + 12),
            W(13, 0, 1, n), W(13, 0, 1, n)>>) \o [i \in 1..n |-> row] :
      q \in Positions, n \in 0..MaxHeight, row \in SpriteRows }

\* Bytes an image can hold between START_ADDRESS and the end of memory.
Capacity == MEMORY_SIZE - START_ADDRESS

\* An image that fills memory to its last byte, and one a byte longer.
LoaderImages ==
  { [i \in 1..len |-> 17] : len \in {Capacity, Capacity + 1} }

\* A jump to 0x210 and, there, a call of 0x210: a call of itself whose
\* address has the low byte 0x10.
DeepCallImage ==
  Bytes(<<WA(1, 528)>> \o [i \in 1..7 |-> 0] \o <<WA(2, 528)>>)

BcdVals == {0, 9, 10, 99, 100, 255}

\* V2 = v; I = i; F233, the three digits inside memory
BcdImages ==
  { Bytes(<<WK(6, 2, v), WA(10, i), WK(15, 2, 51)>>) :
      v \in BcdVals, i \in {768, MEMORY_SIZE - 3} }

\* V0 = 17; V1 = 34; VF = 51; I = i; Fx55; V0 = 0; V1 = 0; Fx65, the last
\* byte of the transfer inside memory
TransferImages ==
  { Bytes(<<WK(6, 0, 17), WK(6, 1, 34), WK(6, 15, 51), WA(10, i - x),
            WK(15, x, 85), WK(6, 0, 0), WK(6, 1, 0), WK(15, x, 101)>>) :
      x \in {0, 15}, i \in {768, MEMORY_SIZE - 1} }

\* VA = 2; 00E0
EndToEndImage == Bytes(<<WK(6, 10, 2), 224>>)

Images ==
  AluImages \cup SkipImages \cup KeySkipImages \cup KeyWaitImages
    \cup CallImages \cup MiscImages \cup DrawImages \cup LoaderImages
    \cup {EndToEndImage} \cup BcdImages \cup {DeepCallImage}
    \cup TransferImages

\* The keys the keypad collaborator touches.
Keys == {3, 15}

(***************************************************************************)
(* The machine.                                                            *)
(***************************************************************************)
Next ==
  \/ \E buffer \in Images : LoadROM(buffer)
  \/ \E k \in Keys, v \in {0, 1} : KeyEvent(k, v)
  \/ Fetch
  \/ OP_00E0
  \/ OP_00EE
  \/ OP_1nnn
  \/ OP_2nnn
  \/ OP_3xkk
  \/ OP_4xkk
  \/ OP_5xy0
  \/ OP_6xnn
  \/ OP_7xnn
  \/ OP_8xy0
  \/ OP_8xy1
  \/ OP_8xy2
  \/ OP_8xy3
  \/ OP_8xy4
  \/ OP_8xy5
  \/ OP_8xy6
  \/ OP_8xy7
  \/ OP_8xyE
  \/ OP_9xy0
  \/ OP_Annn
  \/ OP_Bnnn
  \/ OP_Cxkk
  \/ OP_Dxyn
  \/ OP_Ex9E
  \/ OP_ExA1
  \/ OP_Fx07
  \/ OP_Fx0A
  \/ OP_Fx15
  \/ OP_Fx18
  \/ OP_Fx1E
  \/ OP_Fx29
  \/ OP_Fx33
  \/ OP_Fx55
  \/ OP_Fx65

Spec == Init /\ [][Next]_vars

(***************************************************************************)
(* Properties.                                                             *)
(***************************************************************************)
AllUnlit(vid) == \A c \in DOMAIN vid : vid[c] = UNLIT

\* The latches that are set.
KeysDown == {k \in DOMAIN keypad : keypad[k] # 0}

Lowest(S) == CHOOSE k \in S : \A m \in S : k <= m

\* C1: a call executed with stack pointer < 16, answered by a return at the
\* same stack depth, brings the program counter back to the value it had
\* when the call ran (the fetch's advance included) and the stack pointer
\* back to its value before the call.
C1_CallReturnRoundTrip ==
  [][Latched("2nnn") /\ sp < STACK_SIZE =>
       \A oob \in Indeterminate16 :
         /\ Return(Machine', oob).pc = pc
         /\ Return(Machine', oob).sp = sp]_vars

\* C2: the stack pointer is in [0,16) in every reachable state.
C2_StackPointerInRange == sp \in 0..(STACK_SIZE - 1)

\* C3: 8xy4 leaves 1 in the flag register iff Vx + Vy > 255, else 0, and
\* (Vx + Vy) mod 256 in Vx.  For x = 15 the two halves name one register;
\* the claim is stated for every y (15 included) and every other x.
C3_AddWithCarry ==
  [][Latched("8xy4") /\ OpX(opcode) # 15 =>
       LET a == registers[OpX(opcode)]
           b == registers[OpY(opcode)]
       IN  /\ registers'[15] = IF a + b > 255 THEN 1 ELSE 0
           /\ registers'[OpX(opcode)] = (a + b) % 256]_vars

\* C4: 8xy5 leaves 1 in the flag register iff Vx > Vy and (Vx - Vy) mod 256
\* in Vx; 8xy7 leaves 1 iff Vy > Vx and (Vy - Vx) mod 256 in Vx (x # 15).
C4_Subtract ==
  [][OpX(opcode) # 15 =>
       LET a == registers[OpX(opcode)]
           b == registers[OpY(opcode)]
       IN  /\ Latched("8xy5") =>
                /\ registers'[15] = IF a > b THEN 1 ELSE 0
                /\ registers'[OpX(opcode)] = (a - b) % 256
           /\ Latched("8xy7") =>
                /\ registers'[15] = IF b > a THEN 1 ELSE 0
                /\ registers'[OpX(opcode)] = (b - a) % 256]_vars

\* C5: 8xy6 leaves the least-significant bit of Vy in the flag register and
\* Vy shifted right by one in Vx; 8xyE leaves the most-significant bit of Vy
\* in the flag register and (Vy shifted left by one) mod 256 in Vx (x # 15,
\* every y, 15 included).
C5_Shifts ==
  [][OpX(opcode) # 15 =>
       LET b == registers[OpY(opcode)]
       IN  /\ Latched("8xy6") =>
                /\ registers'[15] = b % 2
                /\ registers'[OpX(opcode)] = b \div 2
           /\ Latched("8xyE") =>
                /\ registers'[15] = b \div 128
                /\ registers'[OpX(opcode)] = (2 * b) % 256]_vars

\* The sprite of the latched Dxyn lies in memory, has a set bit, and its
\* rows and columns fit on screen; x and y are not the flag register.
DrawFits ==
  /\ OpX(opcode) # 15 /\ OpY(opcode) # 15
  /\ OpN(opcode) >= 1
  /\ index + OpN(opcode) <= MEMORY_SIZE
  /\ (registers[OpX(opcode)] % VIDEO_WIDTH) + 8 <= VIDEO_WIDTH
  /\ (registers[OpY(opcode)] % VIDEO_HEIGHT) + OpN(opcode) <= VIDEO_HEIGHT

\* C6: a Dxyn on a cleared framebuffer followed by the identical Dxyn leaves
\* the framebuffer all unlit and the flag register 1.  Stated on the first
\* draw: the second draw, applied to the state the first one leaves, ends
\* with every cell unlit and flag 1.
C6_DrawTwiceRestores ==
  [][/\ Latched("Dxyn") /\ DrawFits /\ AllUnlit(video)
     /\ \E r \in 0..(OpN(opcode) - 1) : memory[index + r] # 0
     =>
       LET second ==
             DrawRows(video', 0, 0, OpN(opcode),
                      registers'[OpY(opcode)] % VIDEO_HEIGHT,
                      memory', index', 0, UNLIT)
       IN  AllUnlit(second[1]) /\ second[2] = 1]_vars

\* Bit (7 - c) of sprite row r of the latched Dxyn.
SpriteBit(r, c) == (memory[index + r] \div Pow2(7 - c)) % 2

\* C7: Dxyn toggles the cell at column (Vx mod 64) + c, row (Vy mod 32) + r
\* iff bit (7 - c) of memory[index + r] is set, leaves every other cell as it
\* was, and sets the flag register to 1 iff a cell lit before is unlit
\* after, else 0.
C7_DrawSemantics ==
  [][Latched("Dxyn") /\ DrawFits =>
       LET xPos == registers[OpX(opcode)] % VIDEO_WIDTH
           yPos == registers[OpY(opcode)] % VIDEO_HEIGHT
           Hit(cell) ==
             \E r \in 0..(OpN(opcode) - 1), c \in 0..7 :
               /\ cell = (yPos + r) * VIDEO_WIDTH + xPos + c
               /\ SpriteBit(r, c) = 1
       IN  /\ \A cell \in DOMAIN video :
                video'[cell] =
                  IF Hit(cell) THEN Toggle(video[cell]) ELSE video[cell]
           /\ registers'[15] =
                IF \E cell \in DOMAIN video :
                     video[cell] = LIT /\ video'[cell] = UNLIT
                THEN 1 ELSE 0]_vars

\* C8: 00E0 leaves every framebuffer cell unlit and changes no other field.
C8_ClearScreen ==
  [][Latched("00E0") =>
       /\ AllUnlit(video')
       /\ UNCHANGED <<registers, memory, index, pc, stack, sp, delayTimer,
                      soundTimer, keypad, opcode>>]_vars

\* C9: a cycle that executes Fx0A with no latch set leaves the program
\* counter where it was before the fetch (so the same word is fetched again)
\* and Vx as it was; with a latch set the program counter keeps the fetch's
\* advance of 2 and Vx receives the lowest index among the set latches.
C9_KeyWait ==
  [][Latched("Fx0A") =>
       IF KeysDown = {}
       THEN /\ pc' = U16(pc - 2)
            /\ registers' = registers
            /\ pc' + 1 < MEMORY_SIZE =>
                 memory'[pc'] * 256 + memory'[pc' + 1] = opcode
       ELSE /\ pc' = pc
            /\ registers' =
                 [registers EXCEPT ![OpX(opcode)] = Lowest(KeysDown)]]_vars

\* C9 witness: a key-wait has completed with latches 3 and 15 both set and
\* has stored 3, having been fetched at START_ADDRESS.
C9_Witness ==
  /\ phase = "fetch"
  /\ Decode(opcode) = "Fx0A"
  /\ pc = START_ADDRESS + 2
  /\ KeysDown = {3, 15}
  /\ registers[OpX(opcode)] = 3

\* C10: after construction the registers, the memory outside the font, the
\* stack pointer, the timers, the keypad and the framebuffer are zero, the
\* font is in place and the program counter is 0x200.
C10_InitialState ==
  phase = "constructed" =>
    /\ \A r \in DOMAIN registers : registers[r] = 0
    /\ \A a \in DOMAIN memory :
         memory[a] =
           IF a >= FONTSET_START_ADDRESS
              /\ a < FONTSET_START_ADDRESS + FONTSET_SIZE
           THEN fontset[a - FONTSET_START_ADDRESS + 1] ELSE 0
    /\ pc = START_ADDRESS
    /\ sp = 0
    /\ delayTimer = 0 /\ soundTimer = 0
    /\ \A k \in DOMAIN keypad : keypad[k] = 0
    /\ AllUnlit(video)

(***************************************************************************)
(* C11: loading an image of more than Capacity bytes is rejected: memory   *)
(* and every other field of the machine are after the load what they were  *)
(* before it.                                                              *)
(***************************************************************************)
C11_OversizedRejected ==
  [][(/\ phase = "constructed"
      /\ \E buffer \in LoaderImages :
           Len(buffer) > Capacity /\ LoadROM(buffer))
       => UNCHANGED <<registers, memory, index, pc, stack, sp, delayTimer,
                      soundTimer, keypad, video, opcode>>]_vars

(***************************************************************************)
(* C12: on a freshly constructed machine loaded with the image 6A 02 00 E0 *)
(* the first cycle leaves VA = 2 and pc = 0x202, and the second cycle      *)
(* leaves the framebuffer entirely unlit and pc = 0x204.                   *)
(***************************************************************************)
C12_EndToEnd ==
  (/\ phase = "fetch"
   /\ \A i \in DOMAIN EndToEndImage :
        memory[START_ADDRESS + i - 1] = EndToEndImage[i])
    => /\ opcode = EndToEndImage[1] * 256 + EndToEndImage[2]
            => registers[10] = 2 /\ pc = START_ADDRESS + 2
       /\ opcode = EndToEndImage[3] * 256 + EndToEndImage[4]
            => AllUnlit(video) /\ pc = START_ADDRESS + 4

(***************************************************************************)
(* C13: whatever the index register held, Fx29 with a digit d = Vx in      *)
(* 0..15 leaves it at FONTSET_START_ADDRESS + 5 * d.                       *)
(***************************************************************************)
C13_FontLookup ==
  [][(Latched("Fx29") /\ registers[OpX(opcode)] < NUM_KEYS)
       => index' = FONTSET_START_ADDRESS + 5 * registers[OpX(opcode)]]_vars

(***************************************************************************)
(* C14: Fx33 with v = Vx and the index register at i, i + 2 inside memory, *)
(* leaves memory[i] = v div 100, memory[i+1] = (v div 10) mod 10 and       *)
(* memory[i+2] = v mod 10, and changes no other byte of memory, no         *)
(* register and not the index register.                                    *)
(***************************************************************************)
C14_Bcd ==
  [][(Latched("Fx33") /\ index + 2 < MEMORY_SIZE)
       => LET v == registers[OpX(opcode)]
          IN  /\ memory' = [memory EXCEPT ![index] = v \div 100,
                                          ![index + 1] = (v \div 10) % 10,
                                          ![index + 2] = v % 10]
              /\ 100 * memory'[index] + 10 * memory'[index + 1]
                    + memory'[index + 2] = v
              /\ \A k \in 0..2 : memory'[index + k] \in 0..9
              /\ UNCHANGED <<registers, index>>]_vars

\* F233 has run with V2 = 254 and the index register at 0x300.
C14_Witness ==
  /\ phase = "fetch"
  /\ opcode = WK(15, 2, 51)
  /\ registers[2] = 254
  /\ index = 768
  /\ <<memory[768], memory[769], memory[770]>> = <<2, 5, 4>>

(***************************************************************************)
(* C15: no handler changes a keypad latch; only the keypad collaborator    *)
(* does.                                                                   *)
(***************************************************************************)
C15_KeypadReadOnly == [][phase = "exec" => keypad' = keypad]_vars

\* Every cell of the framebuffer is fully unlit or fully lit.
TwoValued(vid) == \A c \in DOMAIN vid : vid[c] \in {UNLIT, LIT}

(***************************************************************************)
(* C16: 00E0 and Dxyn keep every cell of the framebuffer fully unlit or    *)
(* fully lit, starting from the all-unlit framebuffer, and a cell they     *)
(* change is toggled by Dxyn or cleared by 00E0.                           *)
(***************************************************************************)
C16_CellInvariant ==
  [][((Latched("00E0") \/ Latched("Dxyn")) /\ TwoValued(video))
       => /\ TwoValued(video')
          /\ \A c \in DOMAIN video :
               \/ video'[c] = video[c]
               \/ Latched("Dxyn") /\ video'[c] = Toggle(video[c])
               \/ Latched("00E0") /\ video'[c] = UNLIT]_vars

\* The second draw of a draw image has run on the all-unlit framebuffer, its
\* sprite tested against the cell (the flag is set).
C16_Witness ==
  /\ phase = "fetch"
  /\ Decode(opcode) = "Dxyn"
  /\ pc = START_ADDRESS + 12
  /\ registers[15] = 1
  /\ AllUnlit(video)

\* The condition under which each of the conditional skips skips.
SkipCondition ==
  LET Vx == registers[OpX(opcode)]
      Vy == registers[OpY(opcode)]
  IN  [h \in {"3xkk", "4xkk", "5xy0", "9xy0", "Ex9E", "ExA1"} |->
         CASE h = "3xkk" -> Vx = OpKK(opcode)
           [] h = "4xkk" -> Vx # OpKK(opcode)
           [] h = "5xy0" -> Vx = Vy
           [] h = "9xy0" -> Vx # Vy
           [] h = "Ex9E" -> Vx < NUM_KEYS /\ keypad[Vx] # 0
           [] h = "ExA1" -> Vx < NUM_KEYS /\ keypad[Vx] = 0]

(***************************************************************************)
(* C17: each of 3xkk, 4xkk, 5xy0, 9xy0, Ex9E and ExA1 (Vx a key, for the   *)
(* last two) moves the program counter on by 2 when its condition holds    *)
(* and leaves it otherwise, and changes nothing else of the machine; the   *)
(* conditions of 3xkk and 4xkk, of 5xy0 and 9xy0, of Ex9E and ExA1 are     *)
(* each other's negation, so on the same operands exactly one of a pair    *)
(* skips.                                                                  *)
(***************************************************************************)
C17_ConditionalSkips ==
  [][\A h \in DOMAIN SkipCondition :
       (/\ Latched(h)
        /\ h \in {"Ex9E", "ExA1"} => registers[OpX(opcode)] < NUM_KEYS)
         => /\ pc' = IF SkipCondition[h] THEN pc + 2 ELSE pc
            /\ SkipCondition["3xkk"] = ~SkipCondition["4xkk"]
            /\ SkipCondition["5xy0"] = ~SkipCondition["9xy0"]
            /\ registers[OpX(opcode)] < NUM_KEYS
                  => SkipCondition["Ex9E"] = ~SkipCondition["ExA1"]
            /\ UNCHANGED <<registers, memory, index, stack, sp, delayTimer,
                           soundTimer, keypad, video>>]_vars

\* 4xkk has skipped: Vx differs from kk and the program counter is past the
\* word after the skip of a skip image.
C17_Witness ==
  /\ phase = "fetch"
  /\ Decode(opcode) = "4xkk"
  /\ registers[OpX(opcode)] # OpKK(opcode)
  /\ pc = START_ADDRESS + 8

(***************************************************************************)
(* C18: with the index register at i and i + x inside memory, Fx55 copies  *)
(* registers 0..x to memory[i..i+x] and writes nothing else, Fx65 copies   *)
(* memory[i..i+x] to registers 0..x and writes nothing else, and neither   *)
(* changes the index register: Fx65 after Fx55, with the same x and index  *)
(* and whatever the registers were changed to in between, restores         *)
(* registers 0..x.                                                         *)
(***************************************************************************)
C18_StoreLoadRoundTrip ==
  [][LET x == OpX(opcode)
     IN  /\ (Latched("Fx55") /\ index + x < MEMORY_SIZE)
              => /\ memory' = [a \in DOMAIN memory |->
                                 IF a >= index /\ a <= index + x
                                 THEN registers[a - index] ELSE memory[a]]
                 /\ UNCHANGED <<registers, index, pc, stack, sp, delayTimer,
                                soundTimer, keypad, video>>
         /\ (Latched("Fx65") /\ index + x < MEMORY_SIZE)
              => /\ registers' = [r \in DOMAIN registers |->
                                    IF r <= x THEN memory[index + r]
                                    ELSE registers[r]]
                 /\ UNCHANGED <<memory, index, pc, stack, sp, delayTimer,
                                soundTimer, keypad, video>>]_vars

\* F165 has brought back the V0 = 17 and V1 = 34 that F155 stored at 0x300
\* before both registers were set to 0.
C18_Witness ==
  /\ phase = "fetch"
  /\ opcode = WK(15, 1, 101)
  /\ pc = START_ADDRESS + 14
  /\ index = 768
  /\ <<registers[0], registers[1]>> = <<17, 34>>
  /\ <<memory[768], memory[769]>> = <<17, 34>>

\* The handlers that put a flag in register 15.
FlagWriters == {"8xy4", "8xy5", "8xy6", "8xy7", "8xyE", "Dxyn"}

\* The handlers that write register Vx, or registers 0..x (Fx65).
VxWriters ==
  {"6xnn", "7xnn", "8xy0", "8xy1", "8xy2", "8xy3", "Cxkk", "Fx07", "Fx0A",
   "Fx65"}

(***************************************************************************)
(* C19: a handler other than 8xy4, 8xy5, 8xy6, 8xy7, 8xyE and Dxyn leaves  *)
(* register 15 unchanged, unless it is a handler that writes Vx (or        *)
(* registers 0..x) and x = 15.                                             *)
(***************************************************************************)
C19_FlagFrame ==
  [][(/\ phase = "exec"
      /\ Decode(opcode) \notin FlagWriters
      /\ ~(Decode(opcode) \in VxWriters /\ OpX(opcode) = 15))
       => registers'[15] = registers[15]]_vars

\* 7xkk has wrapped V0 from 1 to 0 and register 15 still holds 255.
C19_Witness ==
  /\ phase = "fetch"
  /\ opcode = WK(7, 0, 255)
  /\ registers[0] = 0
  /\ registers[15] = 255

(***************************************************************************)
(* C20: every cell Dxyn addresses, whatever Vx, Vy and the height n, is a  *)
(* cell of the framebuffer: its index is in [0, VIDEO_WIDTH *              *)
(* VIDEO_HEIGHT).                                                          *)
(***************************************************************************)
C20_DrawInside ==
  Latched("Dxyn")
    => \A row \in 0..(OpN(opcode) - 1) :
         RowCell(registers[OpY(opcode)] % VIDEO_HEIGHT, row)
           \in 0..(VIDEO_WIDTH * VIDEO_HEIGHT - 1)

====
